---- MODULE Spec2Model ----
(***************************************************************************)
(* Model of gemini/gemini.py: the Gemini backtester driver (constructor,   *)
(* run loop, prepare_performance, results_default, _trades_analyze).       *)
(* Floating point values are modelled as exact rationals <<num, den>>,     *)
(* den > 0, in lowest terms; NaN is the value NaN.                         *)
(***************************************************************************)
EXTENDS Integers, Sequences, FiniteSets, TLC

VARIABLES supplied, sim_params, pc, data_in, data, account, records,
          performance, returned, idx, lookback, trace, decisions, logged,
          report, runs, prev

vars == <<supplied, sim_params, pc, data_in, data, account, records,
          performance, returned, idx, lookback, trace, decisions, logged,
          report, runs, prev>>

\* ------------------------------------------------------------------ bounds
MaxTicks == 3
MaxTime == 4
MaxPrice == 2
MaxRuns == 2
TicksPerDay == 2
MaxSamples == 4
MaxValue == 3
MaxTrades == 2

\* ------------------------------------------------------- exact arithmetic
NaN == <<0, 0>>

Abs(x) == IF x < 0 THEN -x ELSE x

RECURSIVE GCD(_, _)
GCD(a, b) == IF b = 0 THEN a ELSE GCD(b, a % b)

IsNaN(x) == x[2] = 0

Norm(n, d) ==
    LET g == GCD(Abs(n), Abs(d))
        s == IF d < 0 THEN -1 ELSE 1
    IN  IF d = 0 THEN NaN ELSE <<s * (n \div g), s * (d \div g)>>

Rat(n) == <<n, 1>>

RMul(x, y) ==
    IF IsNaN(x) \/ IsNaN(y) THEN NaN
    ELSE LET g1 == GCD(Abs(x[1]), y[2])
             g2 == GCD(Abs(y[1]), x[2])
             a == IF g1 = 0 THEN 0 ELSE x[1] \div g1
             d == IF g1 = 0 THEN 1 ELSE y[2] \div g1
             c == IF g2 = 0 THEN 0 ELSE y[1] \div g2
             b == IF g2 = 0 THEN 1 ELSE x[2] \div g2
         IN  Norm(a * c, b * d)

RAdd(x, y) ==
    IF IsNaN(x) \/ IsNaN(y) THEN NaN
    ELSE LET g == GCD(x[2], y[2])
             l == (x[2] \div g) * y[2]
         IN  Norm(x[1] * (l \div x[2]) + y[1] * (l \div y[2]), l)

RNeg(x) == IF IsNaN(x) THEN NaN ELSE <<-x[1], x[2]>>

RSub(x, y) == RAdd(x, RNeg(y))

\* x / y; a zero divisor yields NaN (inf and nan are not told apart)
RDiv(x, y) ==
    IF IsNaN(x) \/ IsNaN(y) \/ y[1] = 0 THEN NaN
    ELSE IF y[1] < 0 THEN RMul(x, <<-y[2], -y[1]>>)
    ELSE RMul(x, <<y[2], y[1]>>)

\* a/b < c/d for b, d > 0, by comparing integer parts and then the remainders
RECURSIVE FracLess(_, _, _, _)
FracLess(a, b, c, d) ==
    LET q1 == a \div b
        q2 == c \div d
        r1 == a - q1 * b
        r2 == c - q2 * d
    IN  IF q1 # q2 THEN q1 < q2
        ELSE IF r2 = 0 THEN FALSE
        ELSE IF r1 = 0 THEN TRUE
        ELSE FracLess(d, r2, b, r1)

RLess(x, y) == FracLess(x[1], x[2], y[1], y[2])

RMin(x, y) == IF RLess(y, x) THEN y ELSE x

RMax(x, y) == IF RLess(x, y) THEN y ELSE x

\* ------------------------------------------------------------ constructor
DefaultCapitalBase == 1000000
RunCapitalFallback == 1000000

\* the default capital of the constructor's docstring, 10k
DefaultsDocstring ==
    [k \in {"capital_base", "data_frequency", "fee"} |->
        IF k = "capital_base" THEN 10000
        ELSE IF k = "data_frequency" THEN "D"
        ELSE "FEES"]

\* self.sim_params as set by __init__ before the merge
Defaults ==
    [k \in {"capital_base", "data_frequency", "fee"} |->
        IF k = "capital_base" THEN DefaultCapitalBase
        ELSE IF k = "data_frequency" THEN "D"
        ELSE "FEES"]

\* a constructor argument: no dict at all, or a dict (a function on its keys)
NoParams == [given |-> FALSE, items |-> <<>>]

Dict(f) == [given |-> TRUE, items |-> f]

\* dict.update: every supplied key is taken
SimParamsUpdate(sp) ==
    IF ~sp.given THEN Defaults
    ELSE [k \in DOMAIN Defaults \cup DOMAIN sp.items |->
            IF k \in DOMAIN sp.items THEN sp.items[k] ELSE Defaults[k]]

\* __init__: replace only received items
SimParamsInit(sp) ==
    IF ~sp.given THEN Defaults
    ELSE [k \in DOMAIN Defaults |->
            IF k \in DOMAIN sp.items THEN sp.items[k] ELSE Defaults[k]]

\* dict.get(k, default)
Get(d, k, default) == IF k \in DOMAIN d THEN d[k] ELSE default

\* ------------------------------------------------------- series helpers
\* helpers.percent_change(old, new)
PercentChange(old, new) == RDiv(RSub(new, old), old)

\* pandas Series.pct_change(): NaN in the first row, v[k]/v[k-1] - 1 after it
PctChange(s) ==
    [k \in 1..Len(s) |->
        IF k = 1 THEN NaN ELSE RSub(RDiv(s[k], s[k - 1]), Rat(1))]

NanToZero(x) == IF IsNaN(x) THEN Rat(0) ELSE x

\* empyrical.cum_returns: nan -> 0, cumulative product of 1 + r
RECURSIVE CumProd(_, _)
CumProd(r, k) ==
    IF k = 0 THEN Rat(1)
    ELSE RMul(CumProd(r, k - 1), RAdd(Rat(1), NanToZero(r[k])))

\* cumulative[0] = start, cumulative[1:] = cum_returns(returns, start)
Cumulative(r) ==
    [k \in 1..(Len(r) + 1) |->
        IF k = 1 THEN Rat(100)
        ELSE RMul(Rat(100), CumProd(r, k - 1))]

\* np.fmax.accumulate
RECURSIVE FMaxAccumulate(_, _)
FMaxAccumulate(c, k) ==
    IF k = 1 THEN c[1] ELSE RMax(FMaxAccumulate(c, k - 1), c[k])

RECURSIVE NanMin(_, _)
NanMin(s, k) == IF k = 1 THEN s[1] ELSE RMin(NanMin(s, k - 1), s[k])

\* empyrical.max_drawdown(returns)
MaxDrawdownOf(r) ==
    IF Len(r) < 1 THEN NaN
    ELSE LET c == Cumulative(r)
             dd == [k \in 1..Len(c) |->
                      LET m == FMaxAccumulate(c, k)
                      IN  RDiv(RSub(c[k], m), m)]
         IN  NanMin(dd, Len(dd))

\* series[:i] with a 0-based integer i: rows 0..i-1
SliceTo(s, i) == SubSeq(s, 1, i)

\* a trailing window of two rows, series[i-2:i], in place of the prefix
MaxDrawdownWindow(s) ==
    [r \in 1..Len(s) |->
        MaxDrawdownOf(PctChange(SubSeq(s, IF r > 2 THEN r - 2 ELSE 1, r - 1)))]

\* [max_drawdown(series[:i].pct_change()) for i in range(0, len(series))]
MaxDrawdownColumn(s) ==
    [r \in 1..Len(s) |-> MaxDrawdownOf(PctChange(SliceTo(s, r - 1)))]

\* [percent_change(series[0], series[i]) for i in range(0, len(series))]
PeriodReturnColumn(s) == [r \in 1..Len(s) |-> PercentChange(s[1], s[r])]

\* ------------------------------------------------------ _trades_analyze
AllTypes == {"Long", "Short"}

\* the fee left out of the profit
PnLNoFee(t) == t.exit * t.size - t.entry * t.size

PnL(t) == t.exit * t.size - t.fee - t.entry * t.size

RECURSIVE PnLList(_, _)
PnLList(trades, type_) ==
    IF trades = <<>> THEN <<>>
    ELSE LET rest == PnLList(Tail(trades), type_)
         IN  IF trades[1].type_ \in type_
             THEN <<PnL(trades[1])>> \o rest ELSE rest

RECURSIVE Sum(_)
Sum(s) == IF s = <<>> THEN 0 ELSE s[1] + Sum(Tail(s))

IsPos(x) == x > 0

IsNeg(x) == x < 0

TradesAnalyze(closed_trades, type_) ==
    LET array == PnLList(closed_trades, type_)
        pnl_win == Sum(SelectSeq(array, IsPos))
        pnl_loss == Sum(SelectSeq(array, IsNeg))
        trades_win == Len(SelectSeq(array, IsPos))
        trades_loss == Len(SelectSeq(array, IsNeg))
        trades == Len(array)
        win_avg == IF trades_win # 0 THEN Norm(pnl_win, trades_win) ELSE Rat(0)
        loss_avg == IF trades_loss # 0 THEN Norm(pnl_loss, trades_loss) ELSE Rat(0)
        ev == RAdd(RMul(Norm(trades_win, trades), win_avg),
                   RMul(Norm(trades_loss, trades), loss_avg))
        success_rate == RMul(Norm(trades_win, trades), Rat(100))
    IN  IF trades = 0 THEN <<Rat(0), Rat(0), Rat(0), Rat(0)>>
        ELSE <<success_rate, loss_avg, win_avg, ev>>

\* ------------------------------------------------- external collaborators
\* exchange.Account(initial_capital, fee)
NoAccount ==
    [constructed |-> FALSE, initial_capital |-> 0, fee |-> "None",
     buying_power |-> 0, date |-> -1, equity |-> <<>>, positions |-> <<>>,
     orders |-> <<>>, opened_trades |-> <<>>, closed_trades |-> <<>>]

Account(initial_capital, fee) ==
    [constructed |-> TRUE, initial_capital |-> initial_capital, fee |-> fee,
     buying_power |-> initial_capital, date |-> -1, equity |-> <<>>,
     positions |-> <<>>, orders |-> <<>>, opened_trades |-> <<>>,
     closed_trades |-> <<>>]

RECURSIVE SharesValue(_, _)
SharesValue(positions, price) ==
    IF positions = <<>> THEN 0
    ELSE positions[1].shares * price + SharesValue(Tail(positions), price)

\* account.total_value(price): cash plus open positions marked at price
TotalValue(acc, price) == acc.buying_power + SharesValue(acc.positions, price)

\* one pending order filled at the bar's close
Fill(acc, order, tick) ==
    IF order = "buy" /\ acc.buying_power >= tick.close
    THEN LET p == [type_ |-> "Long", entry |-> tick.close, shares |-> 1]
         IN  [acc EXCEPT !.buying_power = @ - tick.close,
                         !.positions = Append(@, p),
                         !.opened_trades = Append(@, p)]
    ELSE IF order = "sell" /\ acc.positions # <<>> /\ acc.positions[1].shares > 0
    THEN LET p == acc.positions[1]
             t == [type_ |-> p.type_, entry |-> p.entry, exit |-> tick.close,
                   size |-> p.shares, fee |-> 0]
         IN  [acc EXCEPT !.buying_power = @ + tick.close * p.shares,
                         !.positions[1].shares = 0,
                         !.closed_trades = Append(@, t)]
    ELSE acc

RECURSIVE FillAll(_, _, _)
FillAll(acc, orders, tick) ==
    IF orders = <<>> THEN acc
    ELSE FillAll(Fill(acc, orders[1], tick), Tail(orders), tick)

\* account.check_orders(tick)
CheckOrdersOf(acc, tick) == [FillAll(acc, acc.orders, tick) EXCEPT !.orders = <<>>]

HasShares(p) == p.shares > 0

\* account.purge_positions()
PurgePositionsOf(acc) == [acc EXCEPT !.positions = SelectSeq(@, HasShares)]

\* ticks per bar of a target frequency: 'D' groups TicksPerDay ticks
FreqTicks(f) == IF f = "D" THEN TicksPerDay ELSE 1

BarLabel(ts, n) == (ts \div n) * n

\* timeframe_resampler.resample(data, freq): one bar per non-empty bucket,
\* labelled by the bucket, closing at the bucket's last tick
RECURSIVE ResampleTo(_, _)
ResampleTo(s, n) ==
    IF s = <<>> THEN <<>>
    ELSE LET b == ResampleTo(SubSeq(s, 1, Len(s) - 1), n)
             t == s[Len(s)]
             l == BarLabel(t.ts, n)
         IN  IF b # <<>> /\ b[Len(b)].ts = l
             THEN [b EXCEPT ![Len(b)].close = t.close]
             ELSE Append(b, [ts |-> l, close |-> t.close])

Resample(s, f) == ResampleTo(s, FreqTicks(f))

\* ------------------------------------------------------------------- run
Ev(op, bar) == [op |-> op, bar |-> bar]

NoReturn == [kind |-> "none", exc |-> "none"]

EmptyPerformance ==
    [ts |-> <<>>, close |-> <<>>, price |-> <<>>, base_equity |-> <<>>,
     equity |-> <<>>, benchmark_period_return |-> <<>>,
     benchmark_max_drawdown |-> <<>>, algorithm_period_return |-> <<>>,
     returns |-> <<>>, max_drawdown |-> <<>>, ending_value |-> <<>>,
     alpha |-> <<>>, beta |-> <<>>, sharpe |-> <<>>]

NoReport == [printed |-> FALSE]

NoPrev == [outcome |-> "none", decisions |-> <<>>, performance |-> EmptyPerformance]

\* a lookback that hands the whole series to logic
LocLookahead(d, index) == d

\* self.data.loc[:index]: label slice, every row up to and including the
\* last row labelled index
Loc(d, index) ==
    LET hits == {k \in 1..Len(d) : d[k].ts <= index}
    IN  SubSeq(d, 1, Cardinality(hits))

\* the Account built only when the driver has none yet
StartKeepsAccount ==
    /\ pc \in {"idle", "done", "failed"}
    /\ runs < MaxRuns
    /\ account' = IF account.constructed THEN account
                  ELSE Account(Get(sim_params, "capital_base", RunCapitalFallback),
                               Get(sim_params, "fee", "None"))
    /\ records' = <<>>
    /\ prev' = [outcome |-> pc, decisions |-> decisions, performance |-> performance]
    /\ runs' = runs + 1
    /\ trace' = <<Ev("account", 0)>>
    /\ decisions' = <<>>
    /\ returned' = NoReturn
    /\ idx' = 0
    /\ lookback' = <<>>
    /\ pc' = "initialize"
    /\ UNCHANGED <<supplied, sim_params, data_in, data, performance, logged, report>>

\* lines 98-102: a new Account, records emptied
Start ==
    /\ pc \in {"idle", "done", "failed"}
    /\ runs < MaxRuns
    /\ account' = Account(Get(sim_params, "capital_base", RunCapitalFallback),
                          Get(sim_params, "fee", "None"))
    /\ records' = <<>>
    /\ prev' = [outcome |-> pc, decisions |-> decisions, performance |-> performance]
    /\ runs' = runs + 1
    /\ trace' = <<Ev("account", 0)>>
    /\ decisions' = <<>>
    /\ returned' = NoReturn
    /\ idx' = 0
    /\ lookback' = <<>>
    /\ pc' = "initialize"
    /\ UNCHANGED <<supplied, sim_params, data_in, data, performance, logged, report>>

\* line 104: self.initialize()
Initialize ==
    /\ pc = "initialize"
    /\ trace' = Append(trace, Ev("initialize", 0))
    /\ pc' = "resample"
    /\ UNCHANGED <<supplied, sim_params, data_in, data, account, records,
                   performance, returned, idx, lookback, decisions, logged,
                   report, runs, prev>>

\* line 109: self.data = resample(data, frequency)
DoResample ==
    /\ pc = "resample"
    /\ data' = Resample(data_in, Get(sim_params, "data_frequency", "D"))
    /\ trace' = Append(trace, Ev("resample", 0))
    /\ pc' = IF data' = <<>> THEN "prepare" ELSE "bar"
    /\ UNCHANGED <<supplied, sim_params, data_in, account, records,
                   performance, returned, idx, lookback, decisions, logged,
                   report, runs, prev>>

\* the sample stamped with account.date as it was before the bar set it
BarStaleDate ==
    /\ pc = "bar"
    /\ idx < Len(data)
    /\ LET i == idx + 1
           tick == data[i]
       IN  /\ idx' = i
           /\ account' = [account EXCEPT
                  !.date = tick.ts,
                  !.equity = Append(@, <<account.date, TotalValue(account, tick.close)>>)]
           /\ lookback' = Loc(data, tick.ts)
           /\ trace' = trace \o <<Ev("date", i), Ev("equity", i)>>
    /\ pc' = "logic"
    /\ UNCHANGED <<supplied, sim_params, data_in, data, records, performance,
                   returned, decisions, logged, report, runs, prev>>

\* the equity sample taken before the account's date is set
BarSampleBeforeDate ==
    /\ pc = "bar"
    /\ idx < Len(data)
    /\ LET i == idx + 1
           tick == data[i]
       IN  /\ idx' = i
           /\ account' = [account EXCEPT
                  !.equity = Append(@, <<tick.ts, TotalValue(account, tick.close)>>),
                  !.date = tick.ts]
           /\ lookback' = Loc(data, tick.ts)
           /\ trace' = trace \o <<Ev("equity", i), Ev("date", i)>>
    /\ pc' = "logic"
    /\ UNCHANGED <<supplied, sim_params, data_in, data, records, performance,
                   returned, decisions, logged, report, runs, prev>>

\* lines 112-121: next row of iterrows, account date, equity sample, lookback
Bar ==
    /\ pc = "bar"
    /\ idx < Len(data)
    /\ LET i == idx + 1
           tick == data[i]
       IN  /\ idx' = i
           /\ account' = [account EXCEPT
                  !.date = tick.ts,
                  !.equity = Append(@, <<tick.ts, TotalValue(account, tick.close)>>)]
           /\ lookback' = Loc(data, tick.ts)
           /\ trace' = trace \o <<Ev("date", i), Ev("equity", i)>>
    /\ pc' = "logic"
    /\ UNCHANGED <<supplied, sim_params, data_in, data, records, performance,
                   returned, decisions, logged, report, runs, prev>>

\* the orders a strategy may place at a bar
Choices(acc) ==
    {"hold"} \cup (IF acc.positions = <<>> THEN {"buy"} ELSE {"sell"})

\* line 123: self.logic(lookback_data) returns
Logic ==
    /\ pc = "logic"
    /\ \E d \in Choices(account) :
        /\ account' = IF d = "hold" THEN account
                      ELSE [account EXCEPT !.orders = Append(@, d)]
        /\ decisions' = Append(decisions, d)
    /\ trace' = Append(trace, Ev("logic", idx))
    /\ pc' = "check"
    /\ UNCHANGED <<supplied, sim_params, data_in, data, records, performance,
                   returned, idx, lookback, logged, report, runs, prev>>

\* the exception logged and swallowed: the loop goes on
LogicSwallowed ==
    /\ pc = "logic"
    /\ decisions' = Append(decisions, "raise")
    /\ logged' = Append(logged, "StrategyError")
    /\ trace' = trace \o <<Ev("logic", idx), Ev("log", idx)>>
    /\ pc' = "check"
    /\ UNCHANGED <<supplied, sim_params, data_in, data, account, records,
                   performance, returned, idx, lookback, report, runs, prev>>

\* lines 123, 125-127: self.logic raises; logger.exception(ex); raise ex
LogicRaises ==
    /\ pc = "logic"
    /\ decisions' = Append(decisions, "raise")
    /\ logged' = Append(logged, "StrategyError")
    /\ returned' = [kind |-> "raise", exc |-> "StrategyError"]
    /\ trace' = trace \o <<Ev("logic", idx), Ev("log", idx), Ev("raise", idx)>>
    /\ pc' = "failed"
    /\ UNCHANGED <<supplied, sim_params, data_in, data, account, records,
                   performance, idx, lookback, report, runs, prev>>

\* line 124: self.account.check_orders(tick)
CheckOrders ==
    /\ pc = "check"
    /\ account' = CheckOrdersOf(account, data[idx])
    /\ trace' = Append(trace, Ev("check_orders", idx))
    /\ pc' = "purge"
    /\ UNCHANGED <<supplied, sim_params, data_in, data, records, performance,
                   returned, idx, lookback, decisions, logged, report, runs, prev>>

\* line 130: self.account.purge_positions(); then the next row or the loop's end
PurgePositions ==
    /\ pc = "purge"
    /\ account' = PurgePositionsOf(account)
    /\ trace' = Append(trace, Ev("purge_positions", idx))
    /\ pc' = IF idx < Len(data) THEN "bar" ELSE "prepare"
    /\ UNCHANGED <<supplied, sim_params, data_in, data, records, performance,
                   returned, idx, lookback, decisions, logged, report, runs, prev>>

Column(d, f(_)) == [k \in 1..Len(d) |-> f(d[k])]

CloseOf(row) == Rat(row.close)

TsOf(row) == row.ts

ValueOf(sample) == Rat(sample[2])

\* lines 138-178: prepare_performance
PerformanceOf(d, acc) ==
    LET close == Column(d, CloseOf)
        size == RDiv(Rat(acc.initial_capital), close[1])
        base_equity == [k \in 1..Len(close) |-> RMul(close[k], size)]
        equity == Column(acc.equity, ValueOf)
    IN  [ts |-> Column(d, TsOf),
         close |-> close,
         price |-> close,
         base_equity |-> base_equity,
         equity |-> equity,
         benchmark_period_return |-> PeriodReturnColumn(base_equity),
         benchmark_max_drawdown |-> MaxDrawdownColumn(base_equity),
         algorithm_period_return |-> PeriodReturnColumn(equity),
         returns |-> PctChange(equity),
         max_drawdown |-> MaxDrawdownColumn(equity),
         ending_value |-> [k \in 1..Len(d) |-> 0],
         alpha |-> [k \in 1..Len(d) |-> "0"],
         beta |-> [k \in 1..Len(d) |-> "0"],
         sharpe |-> [k \in 1..Len(d) |-> "0"]]

\* line 132: self.performance = self.prepare_performance()
PreparePerformance ==
    /\ pc = "prepare"
    /\ performance' = PerformanceOf(data, account)
    /\ trace' = Append(trace, Ev("prepare_performance", 0))
    /\ pc' = "results"
    /\ UNCHANGED <<supplied, sim_params, data_in, data, account, records,
                   returned, idx, lookback, decisions, logged, report, runs, prev>>

IsLong(t) == t.type_ = "Long"

IsShort(t) == t.type_ = "Short"

RECURSIVE FeeSum(_)
FeeSum(trades) == IF trades = <<>> THEN 0 ELSE trades[1].fee + FeeSum(Tail(trades))

\* lines 187-280: what results_default prints
ReportOf(d, acc) ==
    LET close == Column(d, CloseOf)
        size == RDiv(Rat(acc.initial_capital), close[1])
        base_equity == [k \in 1..Len(close) |-> RMul(close[k], size)]
        equity == Column(acc.equity, ValueOf)
        longs == Len(SelectSeq(acc.opened_trades, IsLong))
        sells == Len(SelectSeq(acc.closed_trades, IsLong))
        shorts == Len(SelectSeq(acc.opened_trades, IsShort))
        covers == Len(SelectSeq(acc.closed_trades, IsShort))
    IN  [printed |-> TRUE,
         capital |-> acc.initial_capital,
         bench_final |-> base_equity[Len(base_equity)],
         bench_change |-> PercentChange(base_equity[1], base_equity[Len(base_equity)]),
         bench_drawdown |-> RMul(MaxDrawdownOf(PctChange(base_equity)), Rat(100)),
         final |-> equity[Len(equity)],
         change |-> PercentChange(equity[1], equity[Len(equity)]),
         drawdown |-> RMul(MaxDrawdownOf(PctChange(equity)), Rat(100)),
         fees |-> FeeSum(acc.closed_trades),
         long |-> TradesAnalyze(acc.closed_trades, {"Long"}),
         short |-> TradesAnalyze(acc.closed_trades, {"Short"}),
         all |-> TradesAnalyze(acc.closed_trades, AllTypes),
         opened |-> <<longs, shorts, longs + shorts>>,
         closed |-> <<sells, covers, sells + covers>>,
         total |-> <<longs + sells, shorts + covers,
                     longs + shorts + sells + covers>>]

\* lines 196-199: results_default adds two columns to self.data
WithEquityColumns(d, acc) ==
    LET size == RDiv(Rat(acc.initial_capital), Rat(d[1].close))
    IN  [k \in 1..Len(d) |->
            [ts |-> d[k].ts, close |-> d[k].close,
             base_equity |-> RMul(Rat(d[k].close), size),
             equity |-> Rat(acc.equity[k][2])]]

\* line 133: self.results(), the default reporter
Results ==
    /\ pc = "results"
    /\ report' = ReportOf(data, account)
    /\ data' = WithEquityColumns(data, account)
    /\ trace' = Append(trace, Ev("results", 0))
    /\ pc' = "analyze"
    /\ UNCHANGED <<supplied, sim_params, data_in, account, records,
                   performance, returned, idx, lookback, decisions, logged,
                   runs, prev>>

\* line 134: self.analyze(**kwargs)
Analyze ==
    /\ pc = "analyze"
    /\ trace' = Append(trace, Ev("analyze", 0))
    /\ pc' = "return"
    /\ UNCHANGED <<supplied, sim_params, data_in, data, account, records,
                   performance, returned, idx, lookback, decisions, logged,
                   report, runs, prev>>

\* line 136: return self.performance
Return ==
    /\ pc = "return"
    /\ returned' = [kind |-> "table", exc |-> "none"]
    /\ trace' = Append(trace, Ev("return", 0))
    /\ pc' = "done"
    /\ UNCHANGED <<supplied, sim_params, data_in, data, account, records,
                   performance, idx, lookback, decisions, logged, report,
                   runs, prev>>

\* lines 40-69: __init__
Construct ==
    /\ pc = "new"
    /\ sim_params' = SimParamsInit(supplied)
    /\ data' = <<>>
    /\ account' = NoAccount
    /\ records' = <<>>
    /\ performance' = EmptyPerformance
    /\ pc' = "idle"
    /\ UNCHANGED <<supplied, data_in, returned, idx, lookback, trace,
                   decisions, logged, report, runs, prev>>

\* ------------------------------------------------------------ the inputs
RECURSIVE Increasing(_)
Increasing(s) ==
    Len(s) < 2 \/ (s[1].ts < s[2].ts /\ Increasing(Tail(s)))

Ticks == [ts : 1..MaxTime, close : 1..MaxPrice]

\* non-empty input series with strictly increasing timestamps
InputSeries ==
    {s \in UNION {[1..n -> Ticks] : n \in 1..MaxTicks} : Increasing(s)}

\* the constructor arguments of the driver runs
RunParams ==
    {NoParams,
     Dict(<<>>),
     Dict([k \in {"capital_base"} |-> 1000]),
     Dict([k \in {"data_frequency", "start_session"} |->
              IF k = "data_frequency" THEN "H" ELSE "2018"])}

BaseInit ==
    /\ data = <<>>
    /\ account = NoAccount
    /\ records = <<>>
    /\ performance = EmptyPerformance
    /\ returned = NoReturn
    /\ idx = 0
    /\ lookback = <<>>
    /\ trace = <<>>
    /\ decisions = <<>>
    /\ logged = <<>>
    /\ report = NoReport
    /\ runs = 0
    /\ prev = NoPrev

Init ==
    /\ supplied \in RunParams
    /\ sim_params = SimParamsInit(supplied)
    /\ data_in \in InputSeries
    /\ pc = "idle"
    /\ BaseInit

\* run called on a driver that has not run yet
FirstRun == pc = "idle" /\ Start

Next ==
    \/ FirstRun
    \/ Initialize
    \/ DoResample
    \/ Bar
    \/ Logic
    \/ LogicRaises
    \/ CheckOrders
    \/ PurgePositions
    \/ PreparePerformance
    \/ Results
    \/ Analyze
    \/ Return

Spec == Init /\ [][Next]_vars

\* ------------------------------------------------- run called repeatedly
\* input series with one tick at every time 1, 2, ...
HourlySeries == {s \in InputSeries : \A k \in 1..Len(s) : s[k].ts = k}

RerunInit ==
    /\ supplied = NoParams
    /\ sim_params = SimParamsInit(supplied)
    /\ data_in \in HourlySeries
    /\ pc = "idle"
    /\ BaseInit

RerunNext ==
    \/ Start
    \/ Initialize
    \/ DoResample
    \/ Bar
    \/ Logic
    \/ LogicRaises
    \/ CheckOrders
    \/ PurgePositions
    \/ PreparePerformance
    \/ Results
    \/ Analyze
    \/ Return

SpecRerun == RerunInit /\ [][RerunNext]_vars

\* ------------------------------------------- the constructor on its own
OptionSets ==
    [capital_base : {"absent", "a", "b"},
     data_frequency : {"absent", "a", "b"},
     fee : {"absent", "a"},
     start_session : {"absent", "a"},
     end_session : {"absent", "a"}]

OptionKeys == {"capital_base", "data_frequency", "fee", "start_session", "end_session"}

OptionValue(k, o) ==
    IF k = "capital_base" THEN (IF o = "a" THEN 1000 ELSE 2000)
    ELSE IF k = "data_frequency" THEN (IF o = "a" THEN "H" ELSE "D")
    ELSE IF k = "fee" THEN "custom"
    ELSE "2018"

DictOf(opt) ==
    Dict([k \in {x \in OptionKeys : opt[x] # "absent"} |-> OptionValue(k, opt[k])])

AllParams == {NoParams} \cup {DictOf(opt) : opt \in OptionSets}

CtorInit ==
    /\ supplied \in AllParams
    /\ sim_params = Defaults
    /\ data_in = <<>>
    /\ pc = "new"
    /\ BaseInit

CtorNext == Construct

SpecCtor == CtorInit /\ [][CtorNext]_vars

\* --------------------------------------- prepare_performance on its own
Flat(s) == \A k \in 1..Len(s) : s[k] = s[1]

ValueSeqs == UNION {[1..n -> 1..MaxValue] : n \in 1..MaxSamples}

\* the bars and the equity samples at the end of a loop: one sample per bar
PerfInit ==
    /\ supplied = NoParams
    /\ sim_params = Defaults
    /\ data_in = <<>>
    /\ \E c \in ValueSeqs, e \in ValueSeqs :
        /\ Len(c) = Len(e)
        /\ Flat(c) \/ Flat(e)
        /\ data = [k \in 1..Len(c) |-> [ts |-> k, close |-> c[k]]]
        /\ account = [Account(e[1], "FEES") EXCEPT
                         !.date = Len(e),
                         !.buying_power = e[Len(e)],
                         !.equity = [k \in 1..Len(e) |-> <<k, e[k]>>]]
        /\ idx = Len(c)
    /\ pc = "prepare"
    /\ records = <<>>
    /\ performance = EmptyPerformance
    /\ returned = NoReturn
    /\ lookback = <<>>
    /\ trace = <<>>
    /\ decisions = <<>>
    /\ logged = <<>>
    /\ report = NoReport
    /\ runs = 1
    /\ prev = NoPrev

PerfNext == PreparePerformance

SpecPerf == PerfInit /\ [][PerfNext]_vars

\* ------------------------------------------ the trade statistics on their own
Trades ==
    [type_ : AllTypes, entry : {2}, exit : 1..MaxValue, size : {1, 2}, fee : {0, 1}]

TradeSeqs == UNION {[1..n -> Trades] : n \in 0..MaxTrades}

TradesInit ==
    /\ supplied = NoParams
    /\ sim_params = Defaults
    /\ data_in = <<>>
    /\ data = <<[ts |-> 1, close |-> 1]>>
    /\ \E ts \in TradeSeqs :
        account = [Account(1000, "FEES") EXCEPT
                      !.date = 1,
                      !.equity = <<<<1, 1000>>>>,
                      !.closed_trades = ts]
    /\ idx = 1
    /\ pc = "results"
    /\ records = <<>>
    /\ performance = EmptyPerformance
    /\ returned = NoReturn
    /\ lookback = <<>>
    /\ trace = <<>>
    /\ decisions = <<>>
    /\ logged = <<>>
    /\ report = NoReport
    /\ runs = 1
    /\ prev = NoPrev

TradesNext == Results

SpecTrades == TradesInit /\ [][TradesNext]_vars

\* ------------------------------------------------------------ properties
Last(s) == s[Len(s)]

InLoop == pc \in {"logic", "check", "purge"}

AfterPrepare == pc \in {"results", "analyze", "return", "done"}

LogicFailed == decisions # <<>> /\ Last(decisions) = "raise"

\* C1: causality. The data handed to logic at bar idx holds no row later
\* than bar idx, its last row is bar idx, and it is the prefix of the
\* resampled series up to and including bar idx.
C1_Causality ==
    (pc \in {"logic", "check", "failed"} /\ idx >= 1) =>
        /\ lookback # <<>>
        /\ \A k \in 1..Len(lookback) : lookback[k].ts <= data[idx].ts
        /\ Last(lookback) = data[idx]
        /\ lookback = SubSeq(data, 1, idx)

C1_Witness == pc = "logic" /\ idx >= 2 /\ idx < Len(data)

\* C2: equity/bar alignment. One sample per bar, stamped with the bar's
\* timestamp and valued at the bar's close; after the loop the samples are as
\* many as the bars, in order, and the table's equity column is their values.
C2_EquityAligned ==
    /\ InLoop => Len(account.equity) = idx
    /\ pc = "logic" =>
          account.equity[idx] = <<data[idx].ts, TotalValue(account, data[idx].close)>>
    /\ (InLoop \/ pc = "prepare") =>
          \A k \in 1..Len(account.equity) : account.equity[k][1] = data[k].ts
    /\ (pc = "prepare" \/ AfterPrepare) => Len(account.equity) = Len(data)
    /\ AfterPrepare =>
          /\ Len(performance.equity) = Len(data)
          /\ \A k \in 1..Len(data) :
                /\ account.equity[k][1] = data[k].ts
                /\ performance.ts[k] = data[k].ts
                /\ performance.equity[k] = Rat(account.equity[k][2])

C2_Witness ==
    /\ pc = "done"
    /\ Len(data) >= 2
    /\ \E k \in 2..Len(data) : account.equity[k][2] # account.equity[1][2]

\* C3: an exception from logic at bar idx is logged and re-raised, ends the
\* run before the order check and the purge of bar idx, before any later bar
\* and any further equity sample, and nothing is reported: no table is built,
\* the reporter and analyze are not invoked, run returns no table.
C3_LogicFatal ==
    LogicFailed =>
        /\ pc = "failed"
        /\ returned = [kind |-> "raise", exc |-> "StrategyError"]
        /\ logged # <<>> /\ Last(logged) = returned.exc
        /\ SubSeq(trace, Len(trace) - 2, Len(trace))
              = <<Ev("logic", idx), Ev("log", idx), Ev("raise", idx)>>
        /\ \A k \in 1..Len(trace) :
              /\ trace[k].bar <= idx
              /\ trace[k].op \in {"check_orders", "purge_positions"} => trace[k].bar < idx
              /\ trace[k].op \notin {"prepare_performance", "results", "analyze", "return"}
        /\ Len(account.equity) = idx
        /\ performance = prev.performance

C3_Witness ==
    /\ pc = "failed"
    /\ idx >= 2
    /\ idx < Len(data)
    /\ account.positions # <<>>

\* the largest fractional decline from a peak to a later value among v[1..n]
Decline(v, j, k) == RDiv(RSub(v[j], v[k]), v[j])

RECURSIVE MaxOver(_)
MaxOver(S) ==
    IF S = {} THEN Rat(0)
    ELSE LET x == CHOOSE y \in S : TRUE
         IN  RMax(x, MaxOver(S \ {x}))

PeakToTrough(v, n) ==
    MaxOver({Decline(v, p[1], p[2]) :
                p \in {q \in (1..n) \X (1..n) : q[1] <= q[2]}})

Magnitude(x) == IF IsNaN(x) THEN Rat(0) ELSE IF x[1] < 0 THEN RNeg(x) ELSE x

\* C4: row i of each drawdown column is the maximum peak-to-trough fractional
\* decline over the rows up to and including row i (taken in magnitude, an
\* undefined first row read as 0).
C4_PrefixInclusive ==
    AfterPrepare =>
        \A r \in 1..Len(performance.equity) :
            /\ Magnitude(performance.max_drawdown[r])
                  = PeakToTrough(performance.equity, r)
            /\ Magnitude(performance.benchmark_max_drawdown[r])
                  = PeakToTrough(performance.base_equity, r)

NonNegative(x) == ~RLess(NanToZero(x), Rat(0))

\* C5 as stated: every row of each drawdown column is >= 0 and the column
\* never decreases from one row to the next (an undefined row read as 0).
C5_NonNegativeNonDecreasing ==
    AfterPrepare =>
        \A col \in {performance.max_drawdown, performance.benchmark_max_drawdown} :
            /\ \A r \in 1..Len(col) : NonNegative(col[r])
            /\ \A r \in 1..(Len(col) - 1) :
                  ~RLess(NanToZero(col[r + 1]), NanToZero(col[r]))

\* C5 amended: the first row of each drawdown column is NaN, every later row
\* is <= 0, and from the second row on the column never increases.
C5_NonPositiveNonIncreasing ==
    AfterPrepare =>
        \A col \in {performance.max_drawdown, performance.benchmark_max_drawdown} :
            /\ IsNaN(col[1])
            /\ \A r \in 2..Len(col) :
                  /\ ~IsNaN(col[r])
                  /\ ~RLess(Rat(0), col[r])
            /\ \A r \in 2..(Len(col) - 1) : ~RLess(col[r], col[r + 1])

C5_Witness ==
    /\ AfterPrepare
    /\ Len(performance.max_drawdown) >= 4
    /\ RLess(performance.max_drawdown[3], Rat(0))
    /\ RLess(performance.max_drawdown[4], performance.max_drawdown[3])

\* the reference statistics, from the sets of winning and losing trades
RefPnL(t) == (t.exit - t.entry) * t.size - t.fee

RECURSIVE SumPnL(_, _)
SumPnL(trades, S) ==
    IF S = {} THEN 0
    ELSE LET i == CHOOSE j \in S : TRUE
         IN  RefPnL(trades[i]) + SumPnL(trades, S \ {i})

RefStats(trades, filter) ==
    LET all == {i \in 1..Len(trades) : trades[i].type_ \in filter}
        win == {i \in all : RefPnL(trades[i]) > 0}
        loss == {i \in all : RefPnL(trades[i]) < 0}
        n == Cardinality(all)
        avg_win == IF win = {} THEN Rat(0)
                   ELSE Norm(SumPnL(trades, win), Cardinality(win))
        avg_loss == IF loss = {} THEN Rat(0)
                    ELSE Norm(SumPnL(trades, loss), Cardinality(loss))
    IN  IF n = 0 THEN <<Rat(0), Rat(0), Rat(0), Rat(0)>>
        ELSE <<Norm(Cardinality(win) * 100, n),
               avg_loss,
               avg_win,
               RAdd(RMul(Norm(Cardinality(win), n), avg_win),
                    RMul(Norm(Cardinality(loss), n), avg_loss))>>

Recognized == {"capital_base", "data_frequency", "fee"}

\* C7: after construction the effective parameters hold exactly the
\* recognized keys; a recognized key present in the supplied configuration
\* has the supplied value, an absent one has its default.
C7_WhitelistMerge ==
    pc = "idle" =>
        /\ DOMAIN sim_params = Recognized
        /\ \A k \in Recognized :
              IF supplied.given /\ k \in DOMAIN supplied.items
              THEN sim_params[k] = supplied.items[k]
              ELSE sim_params[k] = Defaults[k]

C7_Witness ==
    /\ pc = "idle"
    /\ supplied.given
    /\ {"capital_base", "start_session"} \subseteq DOMAIN supplied.items
    /\ "fee" \notin DOMAIN supplied.items
    /\ sim_params["capital_base"] = 2000
    /\ sim_params["fee"] = "FEES"

NoCapitalSupplied ==
    ~supplied.given \/ "capital_base" \notin DOMAIN supplied.items

C9_FreshRun ==
    /\ pc \in {"initialize", "resample"} =>
          account = Account(sim_params["capital_base"], sim_params["fee"])
    /\ InLoop => Len(account.equity) = idx
    /\ (InLoop /\ idx >= 1) => account.equity[1][2] = account.initial_capital
    /\ (pc = "done" /\ prev.outcome = "done" /\ prev.decisions = decisions) =>
          performance = prev.performance
    /\ (pc = "done" /\ prev.outcome = "failed") =>
          /\ Len(performance.equity) = Len(data)
          /\ performance.equity[1] = Rat(account.initial_capital)

C9_Witness ==
    /\ pc = "done"
    /\ runs = 2
    /\ prev.outcome = "done"
    /\ prev.decisions = decisions
    /\ Len(decisions) >= 2
    /\ decisions[1] = "buy"
    /\ performance.equity[2] # performance.equity[1]

BarEvents(i) ==
    <<Ev("date", i), Ev("equity", i), Ev("logic", i), Ev("check_orders", i),
      Ev("purge_positions", i)>>

RECURSIVE LoopEvents(_)
LoopEvents(n) == IF n = 0 THEN <<>> ELSE LoopEvents(n - 1) \o BarEvents(n)

CompletedRun(n) ==
    <<Ev("account", 0), Ev("initialize", 0), Ev("resample", 0)>>
    \o LoopEvents(n)
    \o <<Ev("prepare_performance", 0), Ev("results", 0), Ev("analyze", 0),
         Ev("return", 0)>>

IsPrefix(s, t) == Len(s) <= Len(t) /\ s = SubSeq(t, 1, Len(s))

\* C10: every run follows the order account, initialize, resample, then per
\* bar date, equity sample, logic, check_orders, purge_positions, then
\* prepare_performance, results, analyze, return; a completed run is exactly
\* that sequence over all its bars, and the table is returned. The sample of
\* a bar is taken before that bar's orders are checked.
C10_Ordering ==
    /\ pc \notin {"idle", "failed"} => IsPrefix(trace, CompletedRun(Len(data)))
    /\ pc = "done" =>
          /\ trace = CompletedRun(Len(data))
          /\ returned.kind = "table"
    /\ pc = "logic" => account.date = data[idx].ts
    /\ pc = "purge" => Len(account.equity) = idx

C10_Witness ==
    /\ pc = "done"
    /\ Len(data) >= 3
    /\ decisions = <<"buy", "hold", "sell">>
    /\ Len(account.closed_trades) = 1

====
